---- MODULE Spec2Model ----
(***************************************************************************)
(* Relationship-graph engine of the family tree application.               *)
(*                                                                         *)
(* State: the React state of App (src/App.tsx:16-24) and of ExportModal,   *)
(* whether a file read has been started, the calls and timeouts of the     *)
(* export dialog in flight, and a record of the last handler call.  One    *)
(* action per user event or callback; the handlers of App are the          *)
(* operators they call.  Names are strings; toLowerCase, trim and the      *)
(* quote stripping of the CSV reader are tables over the finite universe   *)
(* of strings used.                                                        *)
(*                                                                         *)
(* reading (importing) is TRUE once handleFileUpload (Import) has started  *)
(* a FileReader.  The file input can be used any number of times in a row  *)
(* and a repeated start changes nothing else, so the number of reads in    *)
(* flight is not limited: after a start, any number of callbacks can       *)
(* follow.                                                                 *)
(*                                                                         *)
(* Spec is App as src/App.tsx wires it.  SpecImport adds the Import        *)
(* component, whose owner is not part of the sources.  SpecEdit is manual  *)
(* editing alone, with more names to type.                                 *)
(* SpecGedcom is Import reading GEDCOM files, rings of descent longer than *)
(* the depth limit of its cycle filter among them.  SpecTree is App        *)
(* showing uploaded trees whose names are numerals as well, with the       *)
(* export dialog.  SpecExport is the export dialog with its image          *)
(* generation, its closing timeout and the calls that settle late.         *)
(***************************************************************************)
EXTENDS Integers, Sequences, FiniteSets, TLC

VARIABLES view, nodes, links, error, selectedNode, reading, importing, last,
          searchQuery, isExportModalOpen, exportModal, calls, timers

\* the state of the export dialog: App's isExportModalOpen, the state of
\* ExportModal (view, generatedImage, apiError, prompt), the generateContent calls
\* that have not settled and the timeouts of handleClose that have not run
dialog == <<isExportModalOpen, exportModal, calls, timers>>

vars == <<view, nodes, links, error, selectedNode, reading, importing, last,
          searchQuery, dialog>>

(* -------- bounds -------- *)
\* data rows of an uploaded CSV text
MaxRows == 2
\* family records of an imported GEDCOM text
MaxFams == 2
\* generateContent calls of the export dialog that have not settled
MaxCalls == 2
\* timeouts of handleClose that have not run
MaxTimers == 2

(* -------- program constants -------- *)
maxDepth == 50

(* -------- values -------- *)
NULL == "NULL"

\* strings a user can type into a name field
Typed == {" ", "a", " b "}

\* the same with a second spelling of a and a third name, for SpecEdit
TypedMore == {" ", "a", "A", " b ", "c"}

\* data rows of a CSV text, each already split at its commas
CsvRows == { <<"b", "a">>, <<"\"b\"", "A">>, <<"a", "a">>, <<"a">>, <<" ">> }

\* header rows of a CSV text, each already split at its commas
Headers == { <<"\"Child\"", "Parent">>, <<"Parent", "Name">> }

(* -------- error messages -------- *)
ErrEmptyFile == "File is empty or could not be read."
ErrCsvRows == "CSV must have a header row and at least one data row."
ErrCsvColumns == "CSV must contain \"parent\" and \"child\" columns."
ErrReadFile == "Error reading the file."
ErrNameRequired == "Member name is required."
ErrNameExists == "A member with this name already exists."
ErrRelationType == "A relationship type (parent or child) must be specified."
ErrSameName == "The new member must have a different name from the selected member."
\* in the code the message starts with the name of the child
ErrHasParent == "already has a parent. A person can only have one parent in this tree structure."
ErrRelationExists == "This relationship already exists."
ErrNameEmpty == "Member name cannot be empty."
ErrMissingParent ==
  "Improperly formatted CSV: Missing required column(s): \"parent\". The CSV must have both \"parent\" and \"child\" columns."
ErrMissingChild ==
  "Improperly formatted CSV: Missing required column(s): \"child\". The CSV must have both \"parent\" and \"child\" columns."
ErrMissingBoth ==
  "Improperly formatted CSV: Missing required column(s): \"parent\" and \"child\". The CSV must have both \"parent\" and \"child\" columns."
ErrGedcomEmpty == "No valid family relationships found in GEDCOM file."
ErrGedcomParse == "Failed to parse GEDCOM file. Please check its format."
ErrUnsupported == "Unsupported file format. Please upload a CSV or GEDCOM (.ged) file."

(* -------- string functions -------- *)
\* String.prototype.toLowerCase on the strings of the model
toLowerCase(s) ==
  CASE s = "A" -> "a"
    [] s = "Family" -> "family"
    [] s = "Parent" -> "parent"
    [] s = "\"Child\"" -> "\"child\""
    [] s = "Name" -> "name"
    [] OTHER -> s

\* String.prototype.trim on the strings of the model
trim(s) ==
  CASE s = " " -> ""
    [] s = " b " -> "b"
    [] OTHER -> s

\* trimStart and trimEnd: what trim() of a whole line does to its first and last cell
trimStart(s) ==
  CASE s = " " -> ""
    [] s = " b " -> "b "
    [] OTHER -> s

trimEnd(s) ==
  CASE s = " " -> ""
    [] s = " b " -> " b"
    [] s = "b " -> "b"
    [] OTHER -> s

\* s.replace(/"/g, '') on the strings of the model
stripQuotes(s) ==
  CASE s = "\"b\"" -> "b"
    [] s = "\"child\"" -> "child"
    [] s = "\"a\"" -> "a"
    [] s = "\"A\"" -> "A"
    [] s = "\"c\"" -> "c"
    [] s = "\"Family\"" -> "Family"
    [] OTHER -> s

(* -------- sequence helpers -------- *)
Range(s) == { s[i] : i \in 1..Len(s) }

\* Set.prototype.add followed by Array.from: insertion order, no repeats
SetAdd(s, x) == IF x \in Range(s) THEN s ELSE Append(s, x)

\* Array.prototype.indexOf, 0-based, -1 when absent
indexOf(s, x) ==
  IF x \in Range(s) THEN (CHOOSE i \in 1..Len(s) : s[i] = x /\ \A j \in 1..(i-1) : s[j] # x) - 1
  ELSE -1

\* row[index] of a JS array: undefined (falsy, here "") past the end
At(row, index) == IF index + 1 \in 1..Len(row) THEN row[index + 1] ELSE ""

Link(p, c) == [source |-> p, target |-> c]

\* useState of ExportModal: 'options', null, null, ''
ModalInit == [view |-> "options", generatedImage |-> NULL, apiError |-> NULL, prompt |-> ""]

\* the last handler call: its outcome, the number of error messages it set, and
\* what it asked for (add: parent x and child y; applied rename: new name y)
NoCall == [op |-> "init", outcome |-> "none", msgs |-> 0, x |-> NULL, y |-> NULL]

Call(op, outcome, msgs, x, y) == [op |-> op, outcome |-> outcome, msgs |-> msgs, x |-> x, y |-> y]

(* -------- Init -------- *)
Init ==
  /\ view = "landing"
  /\ nodes = << >>
  /\ links = << >>
  /\ error = NULL
  /\ selectedNode = NULL
  /\ reading = FALSE
  /\ importing = FALSE
  /\ last = NoCall
  /\ searchQuery = ""
  /\ isExportModalOpen = FALSE
  /\ exportModal = ModalInit
  /\ calls = 0
  /\ timers = 0

(* -------- handleResetTree -------- *)
\* the start page is rendered without ExportModal: its state is dropped, and what
\* its timeouts and calls set later is set on no mounted component
unmountExportModal ==
  /\ exportModal' = ModalInit
  /\ calls' = 0
  /\ timers' = 0

\* a reset that leaves the search query as it is
handleResetTree_keepsSearch(returnToLanding) ==
  /\ view = "tree"
  /\ returnToLanding \/ Len(nodes) > 0
  /\ nodes' = << >>
  /\ links' = << >>
  /\ error' = NULL
  /\ selectedNode' = NULL
  /\ view' = IF returnToLanding THEN "landing" ELSE view
  /\ IF returnToLanding THEN unmountExportModal ELSE UNCHANGED <<exportModal, calls, timers>>
  /\ last' = Call("reset", "applied", 0, NULL, NULL)
  /\ UNCHANGED <<reading, importing, isExportModalOpen, searchQuery>>

handleResetTree(returnToLanding) ==
  /\ view = "tree"
  /\ returnToLanding \/ Len(nodes) > 0
  /\ nodes' = << >>
  /\ links' = << >>
  /\ error' = NULL
  /\ selectedNode' = NULL
  /\ searchQuery' = ""
  /\ view' = IF returnToLanding THEN "landing" ELSE view
  /\ IF returnToLanding THEN unmountExportModal ELSE UNCHANGED <<exportModal, calls, timers>>
  /\ last' = Call("reset", "applied", 0, NULL, NULL)
  /\ UNCHANGED <<reading, importing, isExportModalOpen>>

\* handleStartManualAdd: reset without going to landing, then show the tree view
handleStartManualAdd ==
  /\ view = "landing"
  /\ nodes' = << >>
  /\ links' = << >>
  /\ error' = NULL
  /\ selectedNode' = NULL
  /\ searchQuery' = ""
  /\ view' = "tree"
  /\ last' = Call("start", "applied", 0, NULL, NULL)
  /\ UNCHANGED <<reading, importing, dialog>>

\* Set.prototype.add, or the first assignment of a key, for each name of names
RECURSIVE addAll(_, _, _)
addAll(names, i, acc) == IF i > Len(names) THEN acc ELSE addAll(names, i + 1, SetAdd(acc, names[i]))

(* -------- hierarchicalData: the ids the rendered tree offers for a click -------- *)
\* nodeMap[id] is set for exactly the ids of the individual list
inNodeMap(id) == id \in Range(nodes)

\* links.forEach: the links the builder uses (both ends in nodeMap)
builderLinks == { l \in Range(links) : inNodeMap(l.source) /\ inNodeMap(l.target) }

childrenIds == { l.target : l \in builderLinks }

\* the value of a string that is a canonical array index ("1", "2"), -1 for the
\* other strings of the model
arrayIndex(s) == CASE s = "1" -> 1 [] s = "2" -> 2 [] OTHER -> -1

\* the keys of nodeMap in the order Object.values and Object.keys give: the keys that
\* are array indices in ascending numeric order, then the other keys in the order of
\* their first assignment
objectKeys(names) ==
  LET ids == addAll(names, 1, << >>)
  IN SortSeq(SelectSeq(ids, LAMBDA id : arrayIndex(id) >= 0),
             LAMBDA x, y : arrayIndex(x) < arrayIndex(y))
       \o SelectSeq(ids, LAMBDA id : arrayIndex(id) < 0)

nodeMapKeys == objectKeys(nodes)

\* a builder that gives every object of nodeMap its first child only
nodeChildren_onlyFirst(id) ==
  LET used == SelectSeq(links, LAMBDA l : l.source = id /\ l \in builderLinks)
  IN IF Len(used) = 0 THEN << >> ELSE << used[1].target >>

\* nodeMap[id].children after links.forEach, as the ids of the children
nodeChildren(id) ==
  LET used == SelectSeq(links, LAMBDA l : l.source = id /\ l \in builderLinks)
  IN [i \in 1..Len(used) |-> used[i].target]

\* Object.values(nodeMap).filter(node => !childrenIds.has(node.id))
roots == SelectSeq(nodeMapKeys, LAMBDA id : id \notin childrenIds)

RECURSIVE descendantsOf(_)
descendantsOf(S) ==
  LET step == S \cup { l.target : l \in { k \in builderLinks : k.source \in S } }
  IN IF step = S THEN S ELSE descendantsOf(step)

\* ids of the nodes of hierarchicalData (d.data.id of every rendered node)
treeIds ==
  IF Len(nodes) = 0 THEN {}
  ELSE IF Len(roots) = 0 THEN descendantsOf({nodeMapKeys[1]})
  ELSE IF Len(roots) > 1 THEN {"Family"} \cup descendantsOf(Range(roots))
  ELSE descendantsOf({roots[1]})

\* a builder that is no function of the two lists: without roots it starts at the
\* selected individual
hierarchicalData_fromSelection ==
  LET root == IF Len(nodes) = 0 THEN NULL
              ELSE IF Len(roots) = 0
                THEN (IF selectedNode \in Range(nodes) THEN selectedNode ELSE nodeMapKeys[1])
              ELSE IF Len(roots) > 1 THEN "Family"
              ELSE roots[1]
  IN [id |-> root,
      children |-> IF root = NULL THEN << >>
                   ELSE IF Len(roots) > 1 THEN roots
                   ELSE nodeChildren(root),
      nodeMap |-> [id \in Range(nodes) |-> nodeChildren(id)]]

\* hierarchicalData: the id of the root it returns (NULL for null), the children of
\* the root, and the children of every object of nodeMap, all as ids
hierarchicalData ==
  LET root == IF Len(nodes) = 0 THEN NULL
              ELSE IF Len(roots) = 0 THEN nodeMapKeys[1]
              ELSE IF Len(roots) > 1 THEN "Family"
              ELSE roots[1]
  IN [id |-> root,
      children |-> IF root = NULL THEN << >>
                   ELSE IF Len(roots) > 1 THEN roots
                   ELSE nodeChildren(root),
      nodeMap |-> [id \in Range(nodes) |-> nodeChildren(id)]]

(* -------- handleNodeSelect -------- *)
\* a select that stores the id it is given, selected or not
handleNodeSelect_noToggle(nodeId) ==
  /\ selectedNode' = nodeId
  /\ last' = Call("select", "applied", 0, NULL, NULL)
  /\ UNCHANGED <<view, nodes, links, error, reading, importing, searchQuery, dialog>>

handleNodeSelect(nodeId) ==
  /\ selectedNode' = IF nodeId = NULL THEN NULL
                     ELSE IF selectedNode = nodeId THEN NULL ELSE nodeId
  /\ last' = Call("select", "applied", 0, NULL, NULL) /\ UNCHANGED <<searchQuery, dialog>>
  /\ UNCHANGED <<view, nodes, links, error, reading, importing>>

\* FamilyTree, rendered in the tree view when hierarchicalData is not null: a click
\* on a node of the tree, or on the background (null); NodeInfo's close button
clickNode(nodeId) ==
  /\ view = "tree"
  /\ nodeId = NULL => (treeIds # {} \/ selectedNode # NULL)
  /\ handleNodeSelect(nodeId)

treeClick == \E nodeId \in treeIds \cup {NULL} : clickNode(nodeId)

(* -------- handleManualAdd -------- *)
\* the parent and child of the requested relationship (App.tsx:115-123)
parentName(existingNodeName, newNodeName, relationshipType) ==
  IF relationshipType = "child" THEN existingNodeName ELSE newNodeName

childName(existingNodeName, newNodeName, relationshipType) ==
  IF relationshipType = "child" THEN newNodeName ELSE existingNodeName

\* links.some(l => l.target.toLowerCase() === childName.toLowerCase())
hasParent(c) == \E l \in Range(links) : toLowerCase(l.target) = toLowerCase(c)

\* links.some(l => source and target match, case-insensitively)
relationExists(p, c) ==
  \E l \in Range(links) : /\ toLowerCase(l.source) = toLowerCase(p)
                          /\ toLowerCase(l.target) = toLowerCase(c)

\* nodes.some(n => n.id.toLowerCase() === name.toLowerCase())
nameExists(name) == \E n \in Range(nodes) : toLowerCase(n) = toLowerCase(name)

\* addedNodes without the child
addedNodes_forgetsChild(p, c) == SetAdd(nodes, p)

\* new Set(nodes.map(n => n.id)) with parentName and childName added
addedNodes(p, c) == SetAdd(SetAdd(nodes, p), c)

handleManualAdd(name, relationshipType) ==
  LET trimmedName == trim(name)
      p == parentName(selectedNode, trimmedName, relationshipType)
      c == childName(selectedNode, trimmedName, relationshipType)
      Declined(msg, pp, cc) ==
        /\ error' = msg
        /\ last' = Call("add", "declined", 1, pp, cc) /\ UNCHANGED <<searchQuery, dialog>>
        /\ UNCHANGED <<nodes, links>>
  IN
  /\ UNCHANGED <<view, selectedNode, reading, importing>>
  /\ IF trimmedName = "" THEN Declined(ErrNameRequired, NULL, NULL)
     ELSE IF selectedNode = NULL THEN
       IF nameExists(trimmedName) THEN Declined(ErrNameExists, NULL, NULL)
       ELSE /\ nodes' = Append(nodes, trimmedName)
            /\ error' = NULL
            /\ last' = Call("add", "applied", 0, NULL, trimmedName) /\ UNCHANGED <<searchQuery, dialog>>
            /\ UNCHANGED links
     ELSE IF relationshipType = "undefined" THEN Declined(ErrRelationType, NULL, NULL)
     ELSE IF toLowerCase(selectedNode) = toLowerCase(trimmedName)
       THEN Declined(ErrSameName, NULL, NULL)
     ELSE IF hasParent(c) THEN Declined(ErrHasParent, p, c)
     ELSE IF relationExists(p, c) THEN Declined(ErrRelationExists, p, c)
     ELSE /\ nodes' = addedNodes(p, c)
          /\ links' = Append(links, Link(p, c))
          /\ error' = NULL
          /\ last' = Call("add", "applied", 0, p, c) /\ UNCHANGED <<searchQuery, dialog>>

\* Controls, shown in the tree view while there is no individual: "Add First Member"
handleAddFirstMember(memberName) ==
  /\ view = "tree"
  /\ Len(nodes) = 0
  /\ trim(memberName) # ""
  /\ handleManualAdd(memberName, "undefined")

\* selectedNodeHasParent of App, which hides the "Add as Parent" button of NodeInfo
selectedNodeHasParent ==
  IF selectedNode = NULL THEN FALSE
  ELSE \E l \in Range(links) : toLowerCase(l.target) = toLowerCase(selectedNode)

\* NodeInfo, shown in the tree view while a node is selected: "Add as Parent / Child"
handleAddRelationship(memberName, relationshipType) ==
  /\ view = "tree"
  /\ selectedNode # NULL
  /\ relationshipType = "parent" => ~selectedNodeHasParent
  /\ trim(memberName) # ""
  /\ handleManualAdd(memberName, relationshipType)

(* -------- handleNodeNameChange -------- *)
\* nodes.map(node => node.id === oldName ? newName : node)
renamedNodes(oldName, newName) ==
  [i \in 1..Len(nodes) |-> IF nodes[i] = oldName THEN newName ELSE nodes[i]]

\* renamedLinks that rewrites the parent end only
renamedLinks_sourceOnly(oldName, newName) ==
  [i \in 1..Len(links) |->
     Link(IF links[i].source = oldName THEN newName ELSE links[i].source, links[i].target)]

\* links.map(link => source and target rewritten)
renamedLinks(oldName, newName) ==
  [i \in 1..Len(links) |->
     Link(IF links[i].source = oldName THEN newName ELSE links[i].source,
          IF links[i].target = oldName THEN newName ELSE links[i].target)]

handleNodeNameChange(oldName, newName) ==
  LET trimmedNewName == trim(newName) IN
  /\ UNCHANGED <<view, reading, importing>>
  /\ IF trimmedNewName = "" THEN
       /\ error' = ErrNameEmpty
       /\ last' = Call("rename", "declined", 1, NULL, NULL) /\ UNCHANGED <<searchQuery, dialog>>
       /\ UNCHANGED <<nodes, links, selectedNode>>
     ELSE IF toLowerCase(trimmedNewName) = toLowerCase(oldName) THEN
       /\ last' = Call("rename", "declined", 0, NULL, NULL) /\ UNCHANGED <<searchQuery, dialog>>
       /\ UNCHANGED <<nodes, links, selectedNode, error>>
     ELSE IF nameExists(trimmedNewName) THEN
       /\ error' = ErrNameExists
       /\ last' = Call("rename", "declined", 1, NULL, NULL) /\ UNCHANGED <<searchQuery, dialog>>
       /\ UNCHANGED <<nodes, links, selectedNode>>
     ELSE
       /\ error' = NULL
       /\ nodes' = renamedNodes(oldName, trimmedNewName)
       /\ links' = renamedLinks(oldName, trimmedNewName)
       /\ selectedNode' = trimmedNewName
       /\ last' = Call("rename", "applied", 0, NULL, trimmedNewName) /\ UNCHANGED <<searchQuery, dialog>>

\* NodeInfo, shown in the tree view while a node is selected: the name form
handleNameChangeSubmit(editedName) ==
  /\ view = "tree"
  /\ selectedNode # NULL
  /\ trim(editedName) # "" /\ trim(editedName) # selectedNode
  /\ handleNodeNameChange(selectedNode, editedName)

(* -------- handleFileUpload -------- *)
\* a CSV text: its lines, each a sequence of cells (the line split at its commas);
\* << >> is the empty text
RECURSIVE RowSeqs(_)
RowSeqs(n) ==
  IF n = 0 THEN { << >> }
  ELSE RowSeqs(n - 1) \cup { Append(r, x) : r \in { q \in RowSeqs(n - 1) : Len(q) = n - 1 }, x \in CsvRows }

Texts == { << >> } \cup { <<h>> \o r : h \in Headers, r \in RowSeqs(MaxRows) }

\* files whose names are numerals as well: data rows, and the texts made of them
TreeRows == { <<"2", "a">>, <<"1", "b">>, <<"b", "1">> }

RECURSIVE TreeRowSeqs(_)
TreeRowSeqs(n) ==
  IF n = 0 THEN { << >> }
  ELSE TreeRowSeqs(n - 1)
         \cup { Append(r, x) : r \in { q \in TreeRowSeqs(n - 1) : Len(q) = n - 1 }, x \in TreeRows }

TreeTexts == { << <<"parent", "child">> >> \o r : r \in TreeRowSeqs(MaxRows) }

\* row.trim() !== ''
nonBlank(line) == ~(Len(line) = 1 /\ trim(line[1]) = "")

\* line.trim(): only the outer ends of the line are trimmed
trimLine(line) ==
  [i \in 1..Len(line) |->
     LET a == IF i = 1 THEN trimStart(line[i]) ELSE line[i]
     IN IF i = Len(line) THEN trimEnd(a) ELSE a]

\* rows[0].trim().toLowerCase().split(',').map(h => h.replace(/"/g, ''))
appHeader(line) ==
  LET t == trimLine(line) IN [i \in 1..Len(t) |-> stripQuotes(toLowerCase(t[i]))]

\* rows[i].split(',').map(h => h.trim().replace(/"/g, ''))
dataRow(line) == [i \in 1..Len(line) |-> stripQuotes(trim(line[i]))]

\* a loop that also takes the rows in which one of the two fields is empty
RECURSIVE rowLinks_keepsHalfRows(_, _, _, _)
rowLinks_keepsHalfRows(rows, i, parentIndex, childIndex) ==
  IF i > Len(rows) THEN << >>
  ELSE LET row == dataRow(rows[i])
           parent == At(row, parentIndex)
           child == At(row, childIndex)
           rest == rowLinks_keepsHalfRows(rows, i + 1, parentIndex, childIndex)
       IN IF parent # "" \/ child # "" THEN <<Link(parent, child)>> \o rest ELSE rest

\* the for loop over the data rows: the links pushed and the set of names added
RECURSIVE rowLinks(_, _, _, _)
rowLinks(rows, i, parentIndex, childIndex) ==
  IF i > Len(rows) THEN << >>
  ELSE LET row == dataRow(rows[i])
           parent == At(row, parentIndex)
           child == At(row, childIndex)
           rest == rowLinks(rows, i + 1, parentIndex, childIndex)
       IN IF parent # "" /\ child # "" THEN <<Link(parent, child)>> \o rest ELSE rest

RECURSIVE linkNodes(_, _, _)
linkNodes(ls, i, acc) ==
  IF i > Len(ls) THEN acc
  ELSE linkNodes(ls, i + 1, SetAdd(SetAdd(acc, ls[i].source), ls[i].target))

\* handleFileUpload up to reader.readAsText(file)
handleFileUpload ==
  /\ error' = NULL
  /\ selectedNode' = NULL
  /\ reading' = TRUE
  /\ last' = Call("upload", "started", 0, NULL, NULL) /\ UNCHANGED <<searchQuery, dialog>>
  /\ UNCHANGED <<view, nodes, links, importing>>

\* the file inputs: AppStartPage (landing view) and Controls (tree view, no individual)
handleFileChange ==
  /\ view = "landing" \/ Len(nodes) = 0
  /\ handleFileUpload

\* what reader.onload of handleFileUpload computes from the text of the file: the
\* error it sets, or the individuals and links it commits
parseUpload(text) ==
  LET rows == SelectSeq(text, nonBlank)
      header == appHeader(rows[1])
      parentIndex == indexOf(header, "parent")
      childIndex == indexOf(header, "child")
      newLinks == rowLinks(rows, 2, parentIndex, childIndex)
      Failed(msg) == [error |-> msg, nodes |-> << >>, links |-> << >>]
  IN IF text = << >> THEN Failed(ErrEmptyFile)
     ELSE IF Len(rows) < 2 THEN Failed(ErrCsvRows)
     ELSE IF parentIndex = -1 \/ childIndex = -1 THEN Failed(ErrCsvColumns)
     ELSE [error |-> NULL, nodes |-> linkNodes(newLinks, 1, << >>), links |-> newLinks]

UploadResults == { parseUpload(text) : text \in Texts }

TreeUploads == { parseUpload(text) : text \in TreeTexts }

\* reader.onload of handleFileUpload, for a text that parses to result r
readerOnload(r) ==
  /\ reading
  /\ UNCHANGED <<selectedNode, reading, importing>>
  /\ IF r.error # NULL THEN
       /\ error' = r.error
       /\ last' = Call("import", "declined", 1, NULL, NULL) /\ UNCHANGED <<searchQuery, dialog>>
       /\ UNCHANGED <<view, nodes, links>>
     ELSE
       /\ nodes' = r.nodes
       /\ links' = r.links
       /\ view' = "tree"
       /\ last' = Call("import", "applied", 0, NULL, NULL) /\ UNCHANGED <<searchQuery, dialog>>
       /\ UNCHANGED error

\* reader.onerror of handleFileUpload
readerOnerror ==
  /\ reading
  /\ error' = ErrReadFile
  /\ last' = Call("import", "declined", 1, NULL, NULL) /\ UNCHANGED <<searchQuery, dialog>>
  /\ UNCHANGED <<view, nodes, links, selectedNode, reading, importing>>

(* -------- Import: parseCSV -------- *)
\* rows[0].trim().toLowerCase().split(',').map(h => h.replace(/"/g, '').trim())
importHeader(line) ==
  LET t == trimLine(line) IN [i \in 1..Len(t) |-> trim(stripQuotes(toLowerCase(t[i])))]

\* parseCSV: the error it reports, or the individuals and links it returns
parseCSV(text) ==
  LET rows == SelectSeq(text, nonBlank)
      header == importHeader(rows[1])
      parentIndex == indexOf(header, "parent")
      childIndex == indexOf(header, "child")
      newLinks == rowLinks(rows, 2, parentIndex, childIndex)
      Failed(msg) == [error |-> msg, nodes |-> << >>, links |-> << >>]
  IN IF Len(rows) < 2 THEN Failed(ErrCsvRows)
     ELSE IF parentIndex = -1 /\ childIndex = -1 THEN Failed(ErrMissingBoth)
     ELSE IF parentIndex = -1 THEN Failed(ErrMissingParent)
     ELSE IF childIndex = -1 THEN Failed(ErrMissingChild)
     ELSE [error |-> NULL, nodes |-> linkNodes(newLinks, 1, << >>), links |-> newLinks]

(* -------- Import: parseGEDCOM -------- *)
\* a GEDCOM text: its non-empty trimmed lines, each split at its blanks
Indi(id, name) == << <<"0", id, "INDI">>, <<"1", "NAME", name>> >>

Fam(id, f) ==
  << <<"0", id, "FAM">> >>
    \o (IF f.husb # "" THEN << <<"1", "HUSB", f.husb>> >> ELSE << >>)
    \o (IF f.wife # "" THEN << <<"1", "WIFE", f.wife>> >> ELSE << >>)
    \o << <<"1", "CHIL", f.chil>> >>

GedFamilies ==
  { [husb |-> "@I1@", wife |-> "", chil |-> "@I2@"],
    [husb |-> "@I2@", wife |-> "", chil |-> "@I1@"],
    [husb |-> "@I1@", wife |-> "@I3@", chil |-> "@I2@"],
    [husb |-> "@I1@", wife |-> "", chil |-> "@I1@"] }

\* the cross-reference ids of the records: @I1@, @I2@, ... and @F1@, @F2@, ...
IndiId(i) == "@I" \o ToString(i) \o "@"
FamId(i) == "@F" \o ToString(i) \o "@"

RECURSIVE FamSeqs(_)
FamSeqs(n) ==
  IF n = 0 THEN { << >> }
  ELSE FamSeqs(n - 1) \cup { Append(r, x) : r \in { q \in FamSeqs(n - 1) : Len(q) = n - 1 }, x \in GedFamilies }

RECURSIVE FamLines(_, _)
FamLines(fams, i) == IF i > Len(fams) THEN << >> ELSE Fam(FamId(i), fams[i]) \o FamLines(fams, i + 1)

GedHead == << <<"0", "HEAD">>, <<"1", "CHAR", "UTF-8">> >>

GedText(fams) ==
  GedHead \o Indi("@I1@", "a") \o Indi("@I2@", "b") \o Indi("@I3@", "/A/")
    \o FamLines(fams, 1) \o << <<"0", "TRLR">> >>

\* the texts, and one with a level line that has no tag
GedTexts == { GedText(fams) : fams \in FamSeqs(MaxFams) } \cup { GedHead \o << <<"0">> >> }

\* a file whose n families make a ring of descent: individual i is the parent of
\* individual i + 1, and individual n of individual 1
RingName(i) == "p" \o ToString(i)

RECURSIVE RingIndis(_, _)
RingIndis(n, i) == IF i > n THEN << >> ELSE Indi(IndiId(i), RingName(i)) \o RingIndis(n, i + 1)

RECURSIVE RingFams(_, _)
RingFams(n, i) ==
  IF i > n THEN << >>
  ELSE Fam(FamId(i), [husb |-> IndiId(i), wife |-> "", chil |-> IndiId((i % n) + 1)])
         \o RingFams(n, i + 1)

RingText(n) == GedHead \o RingIndis(n, 1) \o RingFams(n, 1) \o << <<"0", "TRLR">> >>

\* rings shorter than, as long as and longer than the traversals of the filter reach
RingLengths == {3, maxDepth, maxDepth + 1}

RingTexts == { RingText(n) : n \in RingLengths }

\* a file with names that hold the arrow of the link keys: a ring of descent
\* a, b, b->c, and a->b with the child c
ArrowText ==
  GedHead
    \o Indi("@I1@", "a") \o Indi("@I2@", "b") \o Indi("@I3@", "b->c")
    \o Indi("@I4@", "a->b") \o Indi("@I5@", "c")
    \o Fam("@F1@", [husb |-> "@I1@", wife |-> "", chil |-> "@I2@"])
    \o Fam("@F2@", [husb |-> "@I2@", wife |-> "", chil |-> "@I3@"])
    \o Fam("@F3@", [husb |-> "@I3@", wife |-> "", chil |-> "@I1@"])
    \o Fam("@F4@", [husb |-> "@I4@", wife |-> "", chil |-> "@I5@"])
    \o << <<"0", "TRLR">> >>

\* parseInt(parts[0]); -1 stands for NaN
level(parts) == CASE parts[1] = "0" -> 0 [] parts[1] = "1" -> 1 [] parts[1] = "2" -> 2 [] OTHER -> -1

\* tag.startsWith('@')
RecordIds == { IndiId(i) : i \in 1..(maxDepth + 1) } \cup { FamId(i) : i \in 1..(maxDepth + 1) }

startsWithAt(tag) == tag \in RecordIds

\* s.replace(/\//g, '') on the strings of the model
stripSlashes(s) == CASE s = "/A/" -> "A" [] OTHER -> s

\* parts.slice(2).join(' ').replace(/\//g, '').trim(), for the one-word names of the model
nameOf(parts) == IF Len(parts) < 3 THEN "" ELSE trim(stripSlashes(parts[3]))

\* Map.prototype.set on a map kept as the sequence of its entries in insertion order
MapSet(m, k, v) ==
  IF \E i \in 1..Len(m) : m[i].key = k
  THEN [i \in 1..Len(m) |-> IF m[i].key = k THEN [key |-> k, value |-> v] ELSE m[i]]
  ELSE Append(m, [key |-> k, value |-> v])

\* Map.prototype.get of a name; "" stands for undefined
MapGet(m, k) ==
  IF k # "" /\ \E i \in 1..Len(m) : m[i].key = k
  THEN (CHOOSE e \in Range(m) : e.key = k).value ELSE ""

NoFamily == [set |-> FALSE, husband |-> "", wife |-> "", children |-> << >>]
NewFamily == [set |-> TRUE, husband |-> "", wife |-> "", children |-> << >>]

ParseStart ==
  [individuals |-> << >>, families |-> << >>, currentId |-> "", currentType |-> "",
   currentName |-> "", currentFamily |-> NoFamily, threw |-> FALSE]

\* "Save previous entity" and "Save last entity"
saveEntity(st) ==
  IF st.currentType = "INDI" /\ st.currentId # "" /\ st.currentName # ""
    THEN [st EXCEPT !.individuals = MapSet(@, st.currentId, st.currentName)]
  ELSE IF st.currentType = "FAM" /\ st.currentId # "" /\ st.currentFamily.set
    THEN [st EXCEPT !.families = MapSet(@, st.currentId, st.currentFamily)]
  ELSE st

\* the body of the loop over the lines
parseLine(st, parts) ==
  LET tag == At(parts, 1) IN
  IF level(parts) = 0 THEN
    LET saved == saveEntity(st) IN
    IF Len(parts) < 2 THEN [saved EXCEPT !.threw = TRUE]
    ELSE IF startsWithAt(tag) /\ Len(parts) > 2 THEN
      [saved EXCEPT !.currentId = tag,
                    !.currentType = IF parts[3] = "INDI" THEN "INDI"
                                    ELSE IF parts[3] = "FAM" THEN "FAM" ELSE "",
                    !.currentName = "",
                    !.currentFamily = NewFamily]
    ELSE saved
  ELSE IF level(parts) = 1 /\ st.currentType = "INDI" THEN
    IF tag = "NAME" THEN [st EXCEPT !.currentName = nameOf(parts)] ELSE st
  ELSE IF level(parts) = 1 /\ st.currentType = "FAM" THEN
    IF tag = "HUSB" /\ st.currentFamily.set THEN [st EXCEPT !.currentFamily.husband = At(parts, 2)]
    ELSE IF tag = "WIFE" /\ st.currentFamily.set THEN [st EXCEPT !.currentFamily.wife = At(parts, 2)]
    ELSE IF tag = "CHIL" /\ st.currentFamily.set
      THEN [st EXCEPT !.currentFamily.children = Append(@, At(parts, 2))]
    ELSE st
  ELSE st

\* for (const line of lines) over the lines i..j, left when a line throws; the
\* range is walked in two halves
RECURSIVE parseLines(_, _, _, _)
parseLines(st, lines, i, j) ==
  IF i > j \/ st.threw THEN st
  ELSE IF i = j THEN parseLine(st, lines[i])
  ELSE parseLines(parseLines(st, lines, i, (i + j) \div 2), lines, ((i + j) \div 2) + 1, j)

\* the parents of a family that are known individuals, husband first
familyParents(individuals, family) ==
  (IF MapGet(individuals, family.husband) # "" THEN <<MapGet(individuals, family.husband)>> ELSE << >>)
    \o (IF MapGet(individuals, family.wife) # "" THEN <<MapGet(individuals, family.wife)>> ELSE << >>)

\* `${parent}->${childName}` and `${node}->${ancestor}`: the key of a link
linkKey(source, target) == source \o "->" \o target

\* parents.forEach for one child: a link per parent, but no self-loop and no link
\* whose key linkSet has (linkSet holds the keys of the links pushed)
RECURSIVE parentLinks(_, _, _, _)
parentLinks(parents, i, child, acc) ==
  IF i > Len(parents) THEN acc
  ELSE parentLinks(parents, i + 1, child,
         IF /\ linkKey(parents[i], child) \notin { linkKey(l.source, l.target) : l \in Range(acc) }
            /\ parents[i] # child
         THEN Append(acc, Link(parents[i], child)) ELSE acc)

\* family.children.forEach: acc holds nodeSet and links
RECURSIVE childLinks(_, _, _, _, _)
childLinks(individuals, parents, children, i, acc) ==
  IF i > Len(children) THEN acc
  ELSE LET c == MapGet(individuals, children[i]) IN
       childLinks(individuals, parents, children, i + 1,
         IF c = "" THEN acc
         ELSE [nodeSet |-> SetAdd(acc.nodeSet, c),
               links |-> parentLinks(parents, 1, c, acc.links)])

\* the body of families.forEach
familyLink(individuals, family, acc) ==
  LET parents == familyParents(individuals, family)
      withParents == [acc EXCEPT !.nodeSet = addAll(parents, 1, @)]
  IN childLinks(individuals, parents, family.children, 1, withParents)

\* families.forEach over the families i..j; the range is walked in two halves, and
\* what the families before i gave (acc) is computed before family i is looked at
RECURSIVE familyLinks(_, _, _, _, _)
familyLinks(individuals, families, i, j, acc) ==
  IF i > j \/ Len(acc.links) < 0 THEN acc
  ELSE IF i = j THEN familyLink(individuals, families[i].value, acc)
  ELSE familyLinks(individuals, families, ((i + j) \div 2) + 1, j,
         familyLinks(individuals, families, i, (i + j) \div 2, acc))

\* the two breadth-first traversals of detectCyclesIterative: the nodes first taken
\* from the queue at a depth below maxDepth
RECURSIVE bfs(_, _, _, _, _)
bfs(ls, forward, frontier, visited, depth) ==
  IF frontier = {} \/ depth >= maxDepth THEN visited
  ELSE LET seen == visited \cup frontier
           next == IF forward
                   THEN { l.target : l \in { k \in Range(ls) : k.source \in frontier } }
                   ELSE { l.source : l \in { k \in Range(ls) : k.target \in frontier } }
       IN bfs(ls, forward, next \ seen, seen, depth + 1)

\* adjList.get(node) for the descendants and reverseAdjList.get(node) for the
\* ancestors: the neighbours of a node in the order the links pushed them
neighbours(ls, forward, node) ==
  LET own == SelectSeq(ls, LAMBDA l : IF forward THEN l.source = node ELSE l.target = node)
  IN [i \in 1..Len(own) |-> IF forward THEN own[i].target ELSE own[i].source]

\* a while loop that looks at the depth of an entry only and not at the visited set
RECURSIVE bfsLoop_revisits(_, _, _, _, _)
bfsLoop_revisits(ls, forward, queue, visited, iterations) ==
  IF queue = << >> \/ iterations < 0 THEN [processed |-> visited, iterations |-> iterations]
  ELSE LET current == Head(queue)
           seen == Append(visited, current.node)
           pushed == neighbours(ls, forward, current.node)
       IN IF current.depth >= maxDepth
          THEN bfsLoop_revisits(ls, forward, Tail(queue), visited, iterations + 1)
          ELSE bfsLoop_revisits(ls, forward,
                 Tail(queue) \o [i \in 1..Len(pushed) |-> [node |-> pushed[i], depth |-> current.depth + 1]],
                 seen, iterations + 1)

\* one while loop of detectCyclesIterative, entry by entry of its queue: the nodes
\* it processes (adds to its visited set), in order, and the number of entries it
\* takes from the queue (a count that is kept up to date at every entry)
RECURSIVE bfsLoop(_, _, _, _, _)
bfsLoop(ls, forward, queue, visited, iterations) ==
  IF queue = << >> \/ iterations < 0 THEN [processed |-> visited, iterations |-> iterations]
  ELSE LET current == Head(queue)
           seen == Append(visited, current.node)
           pushed == SelectSeq(neighbours(ls, forward, current.node), LAMBDA n : n \notin Range(seen))
       IN IF current.depth >= maxDepth \/ current.node \in Range(visited)
          THEN bfsLoop(ls, forward, Tail(queue), visited, iterations + 1)
          ELSE bfsLoop(ls, forward,
                 Tail(queue) \o [i \in 1..Len(pushed) |-> [node |-> pushed[i], depth |-> current.depth + 1]],
                 seen, iterations + 1)

\* detectCyclesIterative: the keys node->ancestor it marks
detectCyclesIterative(ls) ==
  UNION { { linkKey(node, ancestor) :
              ancestor \in (bfs(ls, FALSE, {node}, {}, 0) \cap bfs(ls, TRUE, {node}, {}, 0))
                             \ {node} } :
          node \in { l.source : l \in Range(ls) } }

\* the number in the warning parseGEDCOM logs: problematicLinks.size
warned(ls) == Cardinality(detectCyclesIterative(ls))

\* links.filter(link => !problematicLinks.has(key))
cleanLinks(ls) ==
  LET problematicLinks == detectCyclesIterative(ls)
  IN SelectSeq(ls, LAMBDA l : linkKey(l.source, l.target) \notin problematicLinks)

\* parseGEDCOM up to the filter: whether a line threw, nodeSet, and the links
\* pushed for the families
gedcomGraph(text) ==
  LET st == parseLines(ParseStart, text, 1, Len(text))
      parsed == saveEntity(st)
      built == familyLinks(parsed.individuals, parsed.families, 1, Len(parsed.families),
                           [nodeSet |-> << >>, links |-> << >>])
  IN [threw |-> st.threw, nodeSet |-> built.nodeSet, links |-> built.links]

\* parseGEDCOM: the error it reports, or the individuals and links it returns
parseGEDCOM(text) ==
  LET built == gedcomGraph(text)
      Failed(msg) == [error |-> msg, nodes |-> << >>, links |-> << >>]
  IN IF built.threw THEN Failed(ErrGedcomParse)
     ELSE IF Len(built.nodeSet) = 0 THEN Failed(ErrGedcomEmpty)
     ELSE [error |-> NULL, nodes |-> built.nodeSet, links |-> cleanLinks(built.links)]

\* the while loops of detectCyclesIterative on a list of links: for every node of
\* adjList.keys() the loop over its ancestors and the loop over its descendants,
\* entry by entry, and the set the loop collects
traversalsOf(ls) ==
  { [node |-> node, forward |-> forward,
     loop |-> bfsLoop(ls, forward, << [node |-> node, depth |-> 0] >>, << >>, 0),
     collected |-> bfs(ls, forward, {node}, {}, 0)] :
      node \in { l.source : l \in Range(ls) }, forward \in BOOLEAN }

\* the runs of parseGEDCOM on the texts and on the rings: the links before the
\* filter, the number logged, and what is returned
gedcomRun(text) ==
  [candidates |-> IF gedcomGraph(text).threw THEN << >> ELSE gedcomGraph(text).links,
   warned |-> IF gedcomGraph(text).threw THEN 0 ELSE warned(gedcomGraph(text).links),
   returned |-> parseGEDCOM(text)]

GedcomRuns == { gedcomRun(text) : text \in GedTexts \cup RingTexts \cup { ArrowText } }

\* the runs with the traversals of the filter
TraversalRuns ==
  { [candidates |-> gedcomRun(text).candidates,
     traversals |-> traversalsOf(gedcomRun(text).candidates),
     returned |-> gedcomRun(text).returned] : text \in GedTexts \cup RingTexts }

(* -------- Import: handleFileChange -------- *)
\* what reader.onload of Import computes from the name and the text of the file
ImportResults ==
  { parseCSV(text) : text \in Texts \ { << >> } }
    \cup { parseGEDCOM(text) : text \in GedTexts }
    \cup { [error |-> ErrEmptyFile, nodes |-> << >>, links |-> << >>],
           [error |-> ErrUnsupported, nodes |-> << >>, links |-> << >>] }

\* Import.handleFileChange up to reader.readAsText(file); where its owner renders
\* Import is not known, so a read can be started in every state
importFileChange ==
  /\ importing' = TRUE
  /\ last' = Call("upload", "started", 0, NULL, NULL) /\ UNCHANGED <<searchQuery, dialog>>
  /\ UNCHANGED <<view, nodes, links, error, selectedNode, reading>>

\* the owner's handling of two parents of one child: the first parent link of each
\* child is kept and the rest are dropped
\* (links i..j of ls; the range is walked in two halves, and what the links before
\* i gave (acc) is computed before link i is looked at)
RECURSIVE keepFirstParent(_, _, _, _)
keepFirstParent(ls, i, j, acc) ==
  IF i > j \/ Len(acc) < 0 THEN acc
  ELSE IF i = j
       THEN IF \E k \in Range(acc) : k.target = ls[i].target THEN acc ELSE Append(acc, ls[i])
  ELSE keepFirstParent(ls, ((i + j) \div 2) + 1, j,
         keepFirstParent(ls, i, (i + j) \div 2, acc))

\* the owner's onImport: the imported graph replaces the current one
onImport(newNodes, newLinks) ==
  /\ nodes' = newNodes
  /\ links' = keepFirstParent(newLinks, 1, Len(newLinks), << >>)
  /\ view' = "tree"
  /\ UNCHANGED <<error, selectedNode>>

\* the owner's onError: the message is shown
onError(msg) ==
  /\ error' = msg
  /\ UNCHANGED <<view, nodes, links, selectedNode>>

\* reader.onload of Import, for a file that parses to result r
importOnload(r) ==
  /\ importing
  /\ UNCHANGED <<reading, importing>>
  /\ IF r.error # NULL
     THEN onError(r.error) /\ last' = Call("import", "declined", 1, NULL, NULL) /\ UNCHANGED <<searchQuery, dialog>>
     ELSE onImport(r.nodes, r.links) /\ last' = Call("import", "applied", 0, NULL, NULL) /\ UNCHANGED <<searchQuery, dialog>>

\* reader.onerror of Import
importOnerror ==
  /\ importing
  /\ onError(ErrReadFile)
  /\ last' = Call("import", "declined", 1, NULL, NULL) /\ UNCHANGED <<searchQuery, dialog>>
  /\ UNCHANGED <<reading, importing>>

(* -------- ExportModal: handleDownloadCSV -------- *)
\* `"${l.source}","${l.target}"`: the cells of the line written for a link
csvLine(l) == <<"\"" \o l.source \o "\"", "\"" \o l.target \o "\"">>

\* the text handleDownloadCSV writes, as the lines text.split('\n') gives: the header
\* 'parent,child\n' and the joined lines of the links (one empty line for no link)
handleDownloadCSV ==
  << <<"parent", "child">> >>
    \o (IF Len(links) = 0 THEN << <<"">> >> ELSE [i \in 1..Len(links) |-> csvLine(links[i])])

(* -------- export dialog: handleDownloadGEDCOM -------- *)
\* nameToIndiId[name]: @I and the place of the name in the individual list;
\* "undefined" for a name that is not in the list
nameToIndiId(name) ==
  IF name \in Range(nodes)
  THEN IndiId(CHOOSE i \in 1..Len(nodes) :
                /\ nodes[i] = name
                /\ \A j \in 1..Len(nodes) : nodes[j] = name => j <= i)
  ELSE "undefined"

\* the parents of Object.values(families), in its order
familyParentsOrder == objectKeys([i \in 1..Len(links) |-> links[i].source])

\* families[parent].children
familyChildren(parent) ==
  LET own == SelectSeq(links, LAMBDA l : l.source = parent)
  IN [i \in 1..Len(own) |-> own[i].target]

\* the id the loop over the families gives to the family of a parent
famIdOf(parent) == FamId(indexOf(familyParentsOrder, parent) + 1)

\* childToFamId[name] after the loop: the id of the last family that lists the
\* name as a child, "" when no family does
childToFamId(name) ==
  LET at == { i \in 1..Len(familyParentsOrder) :
                name \in Range(familyChildren(familyParentsOrder[i])) }
  IN IF at = {} THEN "" ELSE FamId(CHOOSE i \in at : \A j \in at : j <= i)

\* famString of one family: the FAM line and a CHIL line for each child
famGedcomString(parent) ==
  << <<"0", famIdOf(parent), "FAM">> >>
    \o [i \in 1..Len(familyChildren(parent)) |->
          <<"1", "CHIL", nameToIndiId(familyChildren(parent)[i])>>]

\* indiString of one individual: INDI, NAME, and FAMC and FAMS where they apply
indiGedcomString(name) ==
  << <<"0", nameToIndiId(name), "INDI">>, <<"1", "NAME", name>> >>
    \o (IF childToFamId(name) # "" THEN << <<"1", "FAMC", childToFamId(name)>> >> ELSE << >>)
    \o (IF name \in Range(familyParentsOrder)
        THEN << <<"1", "FAMS", famIdOf(name)>> >> ELSE << >>)

RECURSIVE flatten(_, _)
flatten(blocks, i) == IF i > Len(blocks) THEN << >> ELSE blocks[i] \o flatten(blocks, i + 1)

\* the text handleDownloadGEDCOM writes for a list of individuals that is not empty:
\* its lines that are not empty, each split at its blanks
handleDownloadGEDCOM ==
  << <<"0", "HEAD">>, <<"1", "SOUR", "HeirGraph">>, <<"1", "GEDC">>, <<"2", "VERS", "5.5.1">>,
     <<"2", "FORM", "LINEAGE-LINKED">>, <<"1", "CHAR", "UTF-8">> >>
    \o flatten([i \in 1..Len(nodes) |-> indiGedcomString(nodes[i])], 1)
    \o flatten([i \in 1..Len(familyParentsOrder) |-> famGedcomString(familyParentsOrder[i])], 1)
    \o << <<"0", "TRLR">> >>

(* -------- ExportModal: handlePreparePrompt -------- *)
\* treeJsonStructure: the name of the root, the children of the root, and the
\* children of every object of nodeMap, all as names
treeJsonStructure ==
  LET root == IF Len(roots) = 0 THEN (IF Len(nodeMapKeys) > 0 THEN nodeMapKeys[1] ELSE NULL)
              ELSE IF Len(roots) > 1 THEN "Family"
              ELSE roots[1]
  IN [name |-> root,
      children |-> IF root = NULL THEN << >>
                   ELSE IF Len(roots) > 1 THEN roots
                   ELSE nodeChildren(root),
      nodeMap |-> [name \in Range(nodes) |-> nodeChildren(name)]]

\* the text of generatedPrompt around the JSON of treeJsonStructure
generatedPrompt == "Create an artistic and symbolic image representing the following family tree structure:"

\* ExportModal renders its buttons when App is not on the start page and isOpen
modalShown == view # "landing" /\ isExportModalOpen

\* the button 'Generate AI Image' of the options view
handlePreparePrompt ==
  /\ modalShown
  /\ exportModal.view = "options"
  /\ exportModal' = [exportModal EXCEPT !.prompt = generatedPrompt, !.view = "prompt"]
  /\ last' = Call("prompt", "applied", 0, NULL, NULL)
  /\ UNCHANGED <<view, nodes, links, error, selectedNode, reading, importing,
                 searchQuery, isExportModalOpen, calls, timers>>

(* -------- App: the export button, and the search field -------- *)
\* onClick={() => setIsExportModalOpen(true)}, offered while there are individuals
openExportModal ==
  /\ view # "landing"
  /\ Len(nodes) > 0
  /\ ~isExportModalOpen
  /\ isExportModalOpen' = TRUE
  /\ last' = Call("open", "applied", 0, NULL, NULL)
  /\ UNCHANGED <<view, nodes, links, error, selectedNode, reading, importing,
                 searchQuery, exportModal, calls, timers>>

\* texts typed into the search field
Queries == {"", "a"}

handleSearch(query) ==
  /\ view # "landing"
  /\ searchQuery' = query
  /\ last' = Call("search", "applied", 0, NULL, NULL)
  /\ UNCHANGED <<view, nodes, links, error, selectedNode, reading, importing, dialog>>

(* -------- ExportModal: closing, the prompt, the image -------- *)
\* handleClose: onClose() and a timeout of 300 ms
handleClose ==
  /\ modalShown
  /\ timers < MaxTimers
  /\ isExportModalOpen' = FALSE
  /\ timers' = timers + 1
  /\ last' = Call("close", "applied", 0, NULL, NULL)
  /\ UNCHANGED <<view, nodes, links, error, selectedNode, reading, importing,
                 searchQuery, exportModal, calls>>

\* the callback of the timeout of handleClose
closeTimeout ==
  /\ timers > 0
  /\ timers' = timers - 1
  /\ exportModal' = ModalInit
  /\ last' = Call("timeout", "applied", 0, NULL, NULL)
  /\ UNCHANGED <<view, nodes, links, error, selectedNode, reading, importing,
                 searchQuery, isExportModalOpen, calls>>

\* texts typed into the textarea of the prompt view
PromptTexts == {" ", "oak"}

\* onChange of the textarea: setPrompt(e.target.value)
setPrompt(text) ==
  /\ modalShown
  /\ exportModal.view = "prompt"
  /\ exportModal' = [exportModal EXCEPT !.prompt = text]
  /\ last' = Call("edit", "applied", 0, NULL, NULL)
  /\ UNCHANGED <<view, nodes, links, error, selectedNode, reading, importing,
                 searchQuery, isExportModalOpen, calls, timers>>

\* the buttons 'Back' (prompt and result view) and 'Back to Prompt' (error view)
setView(to) ==
  /\ modalShown
  /\ \/ exportModal.view \in {"prompt", "result"} /\ to = "options"
     \/ exportModal.view = "error" /\ to = "prompt"
  /\ exportModal' = [exportModal EXCEPT !.view = to]
  /\ last' = Call("back", "applied", 0, NULL, NULL)
  /\ UNCHANGED <<view, nodes, links, error, selectedNode, reading, importing,
                 searchQuery, isExportModalOpen, calls, timers>>

\* handleGenerateImage up to its await; the button is disabled for a blank prompt
handleGenerateImage ==
  /\ modalShown
  /\ exportModal.view = "prompt"
  /\ trim(exportModal.prompt) # ""
  /\ calls < MaxCalls
  /\ exportModal' = [exportModal EXCEPT !.view = "loading", !.apiError = NULL]
  /\ calls' = calls + 1
  /\ last' = Call("generate", "started", 0, NULL, NULL)
  /\ UNCHANGED <<view, nodes, links, error, selectedNode, reading, importing,
                 searchQuery, isExportModalOpen, timers>>

\* what a generateContent call settles with: a response with an image part, a
\* response without one, a rejection
Responses == {"image", "no image", "rejected"}

ErrGenerate == "Failed to generate image. Please try again."
ImageUrl == "data:image/png;base64,"

\* an ending of handleGenerateImage that sets nothing for a response without image
generated_ignoresNoImage(response) ==
  IF response = "image"
  THEN [exportModal EXCEPT !.generatedImage = ImageUrl, !.view = "result"]
  ELSE IF response = "no image" THEN exportModal
  ELSE [exportModal EXCEPT !.apiError = ErrGenerate, !.view = "error"]

\* the state of ExportModal after the await of handleGenerateImage
generated(response) ==
  IF response = "image"
  THEN [exportModal EXCEPT !.generatedImage = ImageUrl, !.view = "result"]
  ELSE [exportModal EXCEPT !.apiError = ErrGenerate, !.view = "error"]

\* handleGenerateImage from its await on, when the call settles
generateContentSettled(response) ==
  /\ calls > 0
  /\ calls' = calls - 1
  /\ exportModal' = generated(response)
  /\ last' = Call("generate", "settled", 0, NULL, NULL)
  /\ UNCHANGED <<view, nodes, links, error, selectedNode, reading, importing,
                 searchQuery, isExportModalOpen, timers>>

\* App as src/App.tsx wires it: the start page, Controls, NodeInfo and FamilyTree
Next ==
  \/ \E r \in BOOLEAN : handleResetTree(r)
  \/ handleStartManualAdd
  \/ treeClick
  \/ \E name \in Typed : handleAddFirstMember(name)
  \/ \E name \in Typed, rel \in {"parent", "child"} : handleAddRelationship(name, rel)
  \/ \E name \in Typed : handleNameChangeSubmit(name)
  \/ handleFileChange
  \/ \E r \in UploadResults : readerOnload(r)
  \/ readerOnerror

Spec == Init /\ [][Next]_vars

\* App with the Import component as well
NextImport ==
  \/ \E r \in BOOLEAN : handleResetTree(r)
  \/ handleStartManualAdd
  \/ treeClick
  \/ \E name \in Typed : handleAddFirstMember(name)
  \/ \E name \in Typed, rel \in {"parent", "child"} : handleAddRelationship(name, rel)
  \/ \E name \in Typed : handleNameChangeSubmit(name)
  \/ handleFileChange
  \/ \E r \in UploadResults : readerOnload(r)
  \/ readerOnerror
  \/ importFileChange
  \/ \E r \in ImportResults : importOnload(r)
  \/ importOnerror

SpecImport == Init /\ [][NextImport]_vars

\* an editing session in which no file is read, with more names to type
NextEdit ==
  \/ \E r \in BOOLEAN : handleResetTree(r)
  \/ handleStartManualAdd
  \/ treeClick
  \/ \E name \in TypedMore : handleAddFirstMember(name)
  \/ \E name \in TypedMore, rel \in {"parent", "child"} : handleAddRelationship(name, rel)
  \/ \E name \in TypedMore : handleNameChangeSubmit(name)
  \/ \E query \in Queries : handleSearch(query)

SpecEdit == Init /\ [][NextEdit]_vars

\* App showing the trees of uploaded files whose names are numerals as well
NextTree ==
  \/ \E r \in BOOLEAN : handleResetTree(r)
  \/ treeClick
  \/ handleFileChange
  \/ \E r \in TreeUploads : readerOnload(r)
  \/ readerOnerror
  \/ openExportModal
  \/ handlePreparePrompt

SpecTree == Init /\ [][NextTree]_vars

\* the Import component reading GEDCOM files, long rings of descent among them
NextGedcom ==
  \/ \E r \in BOOLEAN : handleResetTree(r)
  \/ importFileChange
  \/ \E run \in GedcomRuns : importOnload(run.returned)
  \/ importOnerror

SpecGedcom == Init /\ [][NextGedcom]_vars

\* App with a first member, and the export dialog with its image generation
NextExport ==
  \/ \E r \in BOOLEAN : handleResetTree(r)
  \/ handleStartManualAdd
  \/ \E name \in Typed : handleAddFirstMember(name)
  \/ openExportModal
  \/ handlePreparePrompt
  \/ \E text \in PromptTexts : setPrompt(text)
  \/ \E to \in {"options", "prompt"} : setView(to)
  \/ handleGenerateImage
  \/ \E response \in Responses : generateContentSettled(response)
  \/ handleClose
  \/ closeTimeout

SpecExport == Init /\ [][NextExport]_vars

(* ======================= properties ======================= *)
RECURSIVE reachable(_, _)
reachable(ls, S) ==
  LET step == S \cup { l.target : l \in { k \in Range(ls) : k.source \in S } }
  IN IF step = S THEN S ELSE reachable(ls, step)

\* a path of one or more links of ls leads from x to y
Path(ls, x, y) == y \in reachable(ls, { l.target : l \in { k \in Range(ls) : k.source = x } })

\* C1: after every step no two links have the same child (each individual is the
\* target of at most one link)
C1_SingleParent ==
  \A i, j \in 1..Len(links) : i # j => links[i].target # links[j].target

\* C2: after every step the links contain no directed cycle (no individual is
\* reachable from itself)
C2_Acyclic ==
  \A l \in Range(links) : ~Path(links, l.source, l.source)

\* C3: after every step no two entries of the individual list have names that are
\* equal when compared case-insensitively
C3_UniqueNames ==
  \A i, j \in 1..Len(nodes) : i # j => toLowerCase(nodes[i]) # toLowerCase(nodes[j])

\* C4: after every step the source and the target of every link are names of the
\* individual list
C4_EndpointsExist ==
  \A l \in Range(links) : l.source \in Range(nodes) /\ l.target \in Range(nodes)

\* C4 witness: a manual add has just appended a link whose child it also appended
\* to the individual list, in a graph that already had a link
C4_Witness ==
  /\ last.op = "add" /\ last.outcome = "applied" /\ last.x # NULL
  /\ Len(links) >= 2 /\ links[Len(links)] = Link(last.x, last.y)
  /\ Len(nodes) >= 3 /\ nodes[Len(nodes)] = last.y

\* C5: after every step no link has its source equal to its target
C5_NoSelfEdge ==
  \A l \in Range(links) : l.source # l.target

\* C6: after every step the link list never holds the same (parent, child) pair twice
C6_NoDuplicatePair ==
  \A i, j \in 1..Len(links) : i # j => links[i] # links[j]

\* C7: a manual add, rename or CSV import that does not apply its mutation leaves the
\* individual list and the link list as they were and sets exactly one error message
C7_DeclinedCall ==
  [][ (last'.outcome = "declined" /\ last'.op \in {"add", "rename", "import"})
        => /\ nodes' = nodes
           /\ links' = links
           /\ error' # NULL
           /\ last'.msgs = 1 ]_vars

\* C8: while a path leads from X to Y, a manual add asking for the link Y -> X is
\* rejected with an error and leaves the individual list and the link list unchanged
C8_CycleRejected ==
  [][ (last'.op = "add" /\ last'.x # NULL /\ Path(links, last'.y, last'.x))
        => /\ last'.outcome = "declined"
           /\ error' # NULL
           /\ nodes' = nodes
           /\ links' = links ]_vars

\* C9: a manual add of the link (parent, child) followed at once by a request for the
\* same link makes the second request fail with the duplicate-relationship error and
\* leaves the number of links unchanged
C9_DuplicateRejected ==
  [][ (/\ last.op = "add" /\ last.outcome = "applied" /\ last.x # NULL
       /\ last'.op = "add" /\ last' # last /\ last'.x = last.x /\ last'.y = last.y)
        => /\ error' = ErrRelationExists
           /\ Len(links') = Len(links) ]_vars

\* C10: an accepted rename of an existing individual puts the new name in the place
\* of the old one in the individual list and in both ends of every link, changes
\* neither the number of individuals nor the number of links, and leaves the old name
\* in neither list
C10_RenameCascades ==
  [][ (last'.op = "rename" /\ last'.outcome = "applied" /\ selectedNode \in Range(nodes))
        => LET oldName == selectedNode
               newName == last'.y
           IN /\ Len(nodes') = Len(nodes)
              /\ Len(links') = Len(links)
              /\ \A i \in 1..Len(nodes) :
                   nodes'[i] = IF nodes[i] = oldName THEN newName ELSE nodes[i]
              /\ \A i \in 1..Len(links) :
                   /\ links'[i].source = IF links[i].source = oldName THEN newName
                                         ELSE links[i].source
                   /\ links'[i].target = IF links[i].target = oldName THEN newName
                                         ELSE links[i].target
              /\ oldName \notin Range(nodes')
              /\ \A l \in Range(links') : l.source # oldName /\ l.target # oldName ]_vars

\* C10 witness: the renamed individual stands between two others, as the child of
\* one link and the parent of another
C10_Witness ==
  /\ last.op = "rename" /\ last.outcome = "applied"
  /\ last.y \in Range(nodes)
  /\ \E l1, l2 \in Range(links) :
       /\ l1.target = last.y /\ l2.source = last.y
       /\ l1.source # last.y /\ l2.target # last.y /\ l1.source # l2.target

\* C11: a rename with a non-empty trimmed new name is rejected with the duplicate-name
\* error exactly when the new name equals, case-insensitively, the name of an
\* individual other than the renamed one; otherwise (also when it collides only with
\* the renamed individual's own name) the rename is applied
C11_RenameCollision ==
  [][ \A editedName \in TypedMore :
        handleNameChangeSubmit(editedName) =>
          LET collides == \E n \in Range(nodes) :
                            /\ n # selectedNode
                            /\ toLowerCase(n) = toLowerCase(trim(editedName))
              rejected == /\ last'.outcome = "declined" /\ last'.msgs = 1
                          /\ error' = ErrNameExists
          IN /\ rejected <=> collides
             /\ ~collides => last'.outcome = "applied" ]_vars

\* C12: in every reachable state that offers the export (the tree view with at least
\* one individual), the CSV text written by the export is accepted by the CSV import,
\* of App and of Import, and parses to the same set of individuals and the same set
\* of links
C12_CsvRoundTrip ==
  (view = "tree" /\ Len(nodes) > 0) =>
    \A r \in {parseUpload(handleDownloadCSV), parseCSV(handleDownloadCSV)} :
      /\ r.error = NULL
      /\ Range(r.nodes) = Range(nodes)
      /\ Range(r.links) = Range(links)

\* C13: the links parseGEDCOM returns after its cycle filter hold no directed cycle
\* (no individual is its own ancestor), whatever the length of the cycles among
\* the links of the families, also when it is above the depth limit of 50
C13_FilterAcyclic ==
  [][ \A run \in GedcomRuns :
        (importOnload(run.returned) /\ run.returned.error = NULL) =>
          \A l \in Range(run.returned.links) :
            ~Path(run.returned.links, l.source, l.source) ]_vars

\* C14: when the cycle filter of parseGEDCOM drops links, the number it reports is
\* the number of links removed: the links of the families minus the links returned
C14_ReportedCount ==
  [][ \A run \in GedcomRuns :
        (/\ importOnload(run.returned)
         /\ run.returned.error = NULL
         /\ Len(run.candidates) > Len(run.returned.links)) =>
          run.warned = Len(run.candidates) - Len(run.returned.links) ]_vars

C16_FamilyRoot ==
  LET parentless == SelectSeq(nodes, LAMBDA id : ~(\E l \in Range(links) : l.target = id))
  IN Len(parentless) >= 2 =>
       /\ hierarchicalData.id = "Family"
       /\ hierarchicalData.children = parentless

\* C17: the root "Family" that hierarchicalData makes up for several roots is never
\* the selected node, and it is no individual and no end of a link (no name typed
\* or uploaded in Spec is "Family", so it can only come from the made-up root)
C17_FamilyNotSelectable ==
  /\ selectedNode # "Family"
  /\ "Family" \notin Range(nodes)
  /\ \A l \in Range(links) : l.source # "Family" /\ l.target # "Family"

missingColumns(text) ==
  LET rows == SelectSeq(text, nonBlank)
  IN IF Len(rows) = 0 THEN {}
     ELSE { c \in {"parent", "child"} : c \notin Range(importHeader(rows[1])) }

\* the message holds the name of the column
namesColumn(msg, c) ==
  /\ c \in {"parent", "child"}
  /\ msg \in {ErrCsvColumns, ErrMissingParent, ErrMissingChild, ErrMissingBoth}

\* the uploads of the texts: the columns the header lacks and what onload computes
UploadRuns == { [missing |-> missingColumns(text), returned |-> parseUpload(text)] : text \in Texts }

\* C19: when the header row of an uploaded CSV text lacks the parent column, the
\* child column or both, the upload is rejected with a message that names each
\* missing column, and the individuals, the links and the view stay as they are
C19_MissingColumnNamed ==
  [][ last'.op = "import" =>
        \A run \in UploadRuns :
          (run.missing # {} /\ readerOnload(run.returned)) =>
            /\ last'.outcome = "declined"
            /\ \A c \in run.missing : namesColumn(error', c)
            /\ UNCHANGED <<nodes, links, view>> ]_vars

\* the field of a data row under the column of the header that has the name c,
\* without outer blanks and quotes; "" when the row has no such field
fieldOf(text, row, c) ==
  LET header == importHeader(SelectSeq(text, nonBlank)[1])
      at == { i \in 1..Len(header) : header[i] = c }
      first == CHOOSE i \in at : \A j \in at : i <= j
  IN IF at = {} \/ first > Len(row) THEN "" ELSE stripQuotes(trim(row[first]))

\* one link per data row of the text in which both fields are filled, in row order
expectedLinks(text) ==
  LET rows == SelectSeq(text, nonBlank)
      filled == SelectSeq(SubSeq(rows, 2, Len(rows)),
                          LAMBDA row : fieldOf(text, row, "parent") # "" /\ fieldOf(text, row, "child") # "")
  IN [i \in 1..Len(filled) |->
        Link(fieldOf(text, filled[i], "parent"), fieldOf(text, filled[i], "child"))]

\* the texts with their expected links, what onload of App computes from them and
\* what parseCSV of Import returns for them
CsvRuns ==
  { [expected |-> expectedLinks(text), returned |-> parseUpload(text), imported |-> parseCSV(text)] :
      text \in { t \in Texts : Len(SelectSeq(t, nonBlank)) >= 2 } }

\* C20: a CSV upload that succeeds replaces the graph: the new link list is one
\* link per data row with both fields filled, in row order, and the new individual
\* list holds exactly the ends of these links, each once; parseCSV of Import
\* returns the same links and individuals for the same text
C20_CsvImportReplaces ==
  [][ (last'.op = "import" /\ last'.outcome = "applied") =>
        \A run \in CsvRuns :
          (run.returned.error = NULL /\ readerOnload(run.returned)) =>
            LET ends == { l.source : l \in Range(run.expected) } \cup { l.target : l \in Range(run.expected) }
            IN /\ links' = run.expected
               /\ Range(nodes') = ends
               /\ Len(nodes') = Cardinality(ends)
               /\ view' = "tree"
               /\ run.imported.error = NULL
               /\ run.imported.links = run.expected
               /\ Range(run.imported.nodes) = ends ]_vars

\* an upload has been applied that gave two different links over three individuals
C20_Witness ==
  /\ last.op = "import" /\ last.outcome = "applied"
  /\ Len(links) = 2 /\ links[1] # links[2]
  /\ Len(nodes) = 3

\* the lines of the record that starts at line i of a GEDCOM text: the lines after
\* it up to the next line of level 0
recordBody(text, i) ==
  { j \in (i + 1)..Len(text) : \A k \in (i + 1)..j : text[k][1] # "0" }

\* the ids that the record at line i refers to in lines with one of the tags
recordRefs(text, i, tags) ==
  { text[j][3] : j \in { k \in recordBody(text, i) : Len(text[k]) = 3 /\ text[k][2] \in tags } }

\* C21: the GEDCOM text exported for a graph has exactly one family record for each
\* individual that is the source of a link; that record refers to the individual
\* in a parent role (HUSB or WIFE) and has one CHIL line for each of its links, so
\* the pairs (parent, child) of the family records are the links of the graph
C21_GedcomFamilies ==
  (view = "tree" /\ Len(nodes) > 0) =>
    LET text == handleDownloadGEDCOM
        famAt == { i \in 1..Len(text) : Len(text[i]) = 3 /\ text[i][1] = "0" /\ text[i][3] = "FAM" }
        sources == { l.source : l \in Range(links) }
        edgesOf(p) == { l \in Range(links) : l.source = p }
    IN /\ Cardinality(famAt) = Cardinality(sources)
       /\ \A p \in sources :
            \E i \in famAt :
              /\ nameToIndiId(p) \in recordRefs(text, i, {"HUSB", "WIFE"})
              /\ recordRefs(text, i, {"CHIL"}) = { nameToIndiId(l.target) : l \in edgesOf(p) }
       /\ \A i \in famAt :
            \A c \in recordRefs(text, i, {"CHIL"}) :
              \E l \in Range(links) :
                /\ nameToIndiId(l.target) = c
                /\ nameToIndiId(l.source) \in recordRefs(text, i, {"HUSB", "WIFE"})

\* C22: on the links of the families of every GEDCOM text, each of the two
\* traversals that detectCyclesIterative starts at a node comes to its end, takes no
\* more entries from its queue than there are links plus the start entry, and
\* processes no node twice
C22_TraversalTerminates ==
  [][ \A run \in TraversalRuns :
        (importOnload(run.returned) /\ run.returned.error = NULL) =>
          /\ { t.node : t \in run.traversals } = { l.source : l \in Range(run.candidates) }
          /\ \A t \in run.traversals :
               /\ t.loop.iterations <= Len(run.candidates) + 1
               /\ Cardinality(Range(t.loop.processed)) = Len(t.loop.processed)
               /\ Range(t.loop.processed) = t.collected ]_vars

\* a file whose families form a ring of descent as long as the depth limit or
\* longer has been imported: the filter has run its traversals round the ring
C22_Witness ==
  /\ last.op = "import" /\ last.outcome = "applied"
  /\ Len(nodes) >= maxDepth

\* C23: hierarchicalData returns null exactly for the empty individual list; with
\* exactly one individual that is the target of no link the root is that
\* individual; when every individual is the target of a link the root is the first
\* individual of the list
C23_BuilderRoot ==
  LET parentless == SelectSeq(nodes, LAMBDA id : ~(\E l \in Range(links) : l.target = id))
  IN /\ (hierarchicalData.id = NULL) <=> (Len(nodes) = 0)
     /\ Len(parentless) = 1 => hierarchicalData.id = parentless[1]
     /\ (Len(nodes) > 0 /\ Len(parentless) = 0) => hierarchicalData.id = nodes[1]

\* the ids of the objects of a tree, one entry per object: the objects under the
\* ids of a list, each followed by the objects under its children
RECURSIVE treeObjects(_, _)
treeObjects(nodeMap, ids) ==
  IF ids = << >> THEN << >>
  ELSE << Head(ids) >> \o treeObjects(nodeMap, nodeMap[Head(ids)] \o Tail(ids))

\* C24: when both ends of every link are individuals of the list, no two links
\* have the same child and no link lies on a cycle, the tree hierarchicalData
\* returns holds every individual exactly once (the root "Family" made for two or
\* more roots not counted), and the
\* (object, child) pairs of the individuals in it are the (source, target) pairs
\* of the links
C24_TreeMatchesGraph ==
  (/\ Len(nodes) > 0
   /\ C4_EndpointsExist
   /\ C1_SingleParent
   /\ C2_Acyclic) =>
    LET h == hierarchicalData
        inTree == treeObjects(h.nodeMap, IF Len(roots) > 1 THEN h.children ELSE << h.id >>)
    IN /\ Range(inTree) = Range(nodes)
       /\ \A id \in Range(nodes) : Cardinality({ i \in 1..Len(inTree) : inTree[i] = id }) = 1
       /\ UNION { { <<id, h.nodeMap[id][k]>> : k \in 1..Len(h.nodeMap[id]) } : id \in Range(inTree) }
            = { <<l.source, l.target>> : l \in Range(links) }

\* a tree of three or more individuals and two or more links is shown, built from
\* a graph with existing ends, one parent per child and no cycle
C24_Witness ==
  /\ view = "tree"
  /\ Len(nodes) >= 3 /\ Len(links) >= 2
  /\ C4_EndpointsExist /\ C1_SingleParent /\ C2_Acyclic

\* C25: after every step the selected node is null or the name of an individual
\* of the individual list
C25_SelectionInList ==
  selectedNode = NULL \/ selectedNode \in Range(nodes)

\* C27: every step of handleResetTree leaves the individual list and the link
\* list empty, the error and the selection null and the search query empty; the
\* view is 'landing' after a call with returnToLanding true and is left as it is
\* after a call with false
C27_ResetClears ==
  [][ \A returnToLanding \in BOOLEAN :
        handleResetTree(returnToLanding) =>
          /\ nodes' = << >> /\ links' = << >>
          /\ error' = NULL /\ searchQuery' = "" /\ selectedNode' = NULL
          /\ view' = IF returnToLanding THEN "landing" ELSE view ]_vars

\* the tree has been cleared without going to the start page
C27_Witness ==
  /\ last.op = "reset"
  /\ view = "tree"
  /\ nodes = << >> /\ searchQuery = ""

\* C28: a step of handleNodeSelect with the id of the selected node leaves no
\* selection, with another id it makes that id the selection, with null it leaves
\* no selection; and it changes neither the individual list nor the link list
C28_SelectToggles ==
  [][ \A nodeId \in Range(nodes) \cup {"Family", NULL} :
        handleNodeSelect(nodeId) =>
          /\ (nodeId # NULL /\ nodeId = selectedNode) => selectedNode' = NULL
          /\ (nodeId # NULL /\ nodeId # selectedNode) => selectedNode' = nodeId
          /\ nodeId = NULL => selectedNode' = NULL
          /\ nodes' = nodes /\ links' = links ]_vars

\* a select has left no selection in a tree of two or more individuals
C28_Witness ==
  /\ last.op = "select"
  /\ selectedNode = NULL
  /\ Len(nodes) >= 2

\* C29: the export dialog shows 'loading' only while a generateContent call has
\* not settled, and every step in which a call settles leaves 'loading': for a
\* response with an image the view is 'result' and the image is stored, for a
\* response without image and for a failed call the view is 'error' and the
\* message is stored
C29_LoadingEnds ==
  /\ [](exportModal.view = "loading" => calls > 0)
  /\ [][ \A response \in Responses :
            generateContentSettled(response) =>
              /\ exportModal'.view # "loading"
              /\ response = "image" =>
                    exportModal'.view = "result" /\ exportModal'.generatedImage = ImageUrl
              /\ response # "image" =>
                    exportModal'.view = "error" /\ exportModal'.apiError = ErrGenerate ]_vars

\* a call that was started from the prompt view has settled with an image while
\* the dialog is open
C29_Witness ==
  /\ last.op = "generate" /\ last.outcome = "settled"
  /\ isExportModalOpen
  /\ exportModal.view = "result" /\ exportModal.generatedImage # NULL

\* C30: once the export dialog is closed and every timeout of handleClose has run,
\* the state of ExportModal is view 'options', no image, no error and an empty
\* prompt, and it stays so across every step that is no action of the user (the
\* end of a file read, the settling of a generateContent call)
C30_ClosedStaysReset ==
  [][ /\ (closeTimeout /\ timers' = 0 /\ ~isExportModalOpen) => exportModal' = ModalInit
      /\ (/\ ~isExportModalOpen /\ timers = 0 /\ exportModal = ModalInit
          /\ last'.op \in {"import", "generate"} /\ last'.outcome # "started")
          => exportModal' = ModalInit ]_vars

\* C26: the links parseGEDCOM returns are the links of the families, in their
\* order, when no link of the families lies on a cycle; and for every file every
\* link of the families that lies on no cycle is among the links returned
C26_KeepsAcyclicLinks ==
  [][ \A run \in GedcomRuns :
        (importOnload(run.returned) /\ run.returned.error = NULL) =>
          /\ (\A l \in Range(run.candidates) : ~Path(run.candidates, l.source, l.source))
                => run.returned.links = run.candidates
          /\ \A l \in Range(run.candidates) :
                ~Path(run.candidates, l.target, l.source) => l \in Range(run.returned.links) ]_vars
====
